---------------------------- MODULE Spec2Model ----------------------------
(***************************************************************************)
(* Model of the authorization decision compiler of magda                   *)
(* (au.csiro.data61.magda.model.Auth): isTrueEquivalent, ConciseOperand,   *)
(* ConciseExpression, ConciseRule and AuthDecision.                        *)
(*                                                                         *)
(* The compiler is a chain of pure functions.  Each function is an         *)
(* operator computed the way the Scala code computes it; a thrown Error    *)
(* is the result Err(kind).  The state machine is one call: Init draws    *)
(* the function called and its input, the action of that function applies *)
(* it and stores what it returned (or threw) in `result`.                  *)
(*                                                                         *)
(* A string is a sequence of one-character strings, so that startsWith,    *)
(* substring, split and endsWith are computed, not assumed.                *)
(***************************************************************************)
EXTENDS Integers, Sequences, FiniteSets, TLC

VARIABLES
    fn,          \* the function called
    value,       \* JsValue argument of isTrueEquivalent
    expression,  \* the ConciseExpression of a toAspectQuery call
    rule,        \* the ConciseRule of a toAspectQueryGroup call
    decision,    \* the AuthDecision of a toAspectQueryGroups / toSql call
    recordPatch, \* the JsonPatch of a call of JsonPathUtils
    thisOperand, \* the ConciseOperand of a call of one of its methods
    prefixes,    \* the prefix set, in its iteration order
    pc,          \* "call" before the function ran, "done" after
    result       \* what the call returned: Ok(v) or Err(kind)

vars == <<fn, value, expression, rule, decision, recordPatch, thisOperand, prefixes,
          pc, result>>

----------------------------------------------------------------------------
(* Bounds of the model *)

\* numbers are the integers -MaxNum .. MaxNum
MaxNum == 1
\* an expression has 0 .. MaxOperands operands
MaxOperands == 3
\* a rule has 0 .. MaxExprs expressions
MaxExprs == 2
\* a decision has 0 .. MaxRules residual rules
MaxRules == 2

\* the longest reference string of an operand call, in tokens
MaxTokens == 5
\* a record patch has 0 .. MaxOps operations
MaxOps == 2

----------------------------------------------------------------------------
(* Results: a returned value or a thrown Error *)

Ok(v) == [ok |-> TRUE, val |-> v, err |-> "none"]

Err(kind) == [ok |-> FALSE, val |-> FALSE, err |-> kind]

(* Option: None is NoneOf(zero), with the zero of the type it would hold *)

Some(x) == [present |-> TRUE, get |-> x]

NoneOf(zero) == [present |-> FALSE, get |-> zero]

Option(S, zero) == {NoneOf(zero)} \cup {Some(x) : x \in S}

SeqsUpTo(S, n) == UNION {[1..k -> S] : k \in 0..n}

----------------------------------------------------------------------------
(* Strings *)

Str0 == <<>>

StartsWith(s, p) ==
    /\ Len(p) <= Len(s)
    /\ SubSeq(s, 1, Len(p)) = p

EndsWith(s, p) ==
    /\ Len(p) <= Len(s)
    /\ SubSeq(s, Len(s) - Len(p) + 1, Len(s)) = p

\* String.substring(n): the string from (0-based) index n on
Substring(s, n) == SubSeq(s, n + 1, Len(s))

CollectionMarker == <<"[", "_", "]">>

\* the segments of s between the separators, empty ones included
RECURSIVE SplitAll(_, _)
SplitAll(s, cur) ==
    IF s = <<>> THEN <<cur>>
    ELSE IF Head(s) = "." THEN <<cur>> \o SplitAll(Tail(s), <<>>)
    ELSE SplitAll(Tail(s), Append(cur, Head(s)))

RECURSIVE DropTrailingEmpty(_)
DropTrailingEmpty(segs) ==
    IF segs # <<>> /\ segs[Len(segs)] = <<>>
    THEN DropTrailingEmpty(SubSeq(segs, 1, Len(segs) - 1))
    ELSE segs

\* java.lang.String.split("\\."): trailing empty segments are removed, and
\* the empty string gives the one segment ""
Split(s) ==
    IF s = <<>> THEN <<Str0>> ELSE DropTrailingEmpty(SplitAll(s, <<>>))

NonEmpty(seg) == seg # <<>>

\* StripLeadingDot that keeps the leading separator
StripLeadingDotNever(s) == s

\* replaceFirst("^\\.", ""): one leading separator is removed
StripLeadingDot(s) ==
    IF s # <<>> /\ Head(s) = "." THEN Tail(s) ELSE s

----------------------------------------------------------------------------
(* spray.json JsValue.  One record shape for every variant: `type` selects *)
(* it, the fields a variant does not use hold their zero.                  *)

JsNull == [type |-> "null", b |-> FALSE, n |-> 0, s |-> <<>>, elems |-> <<>>, keys |-> <<>>]

JsBoolean(b) == [type |-> "boolean", b |-> b, n |-> 0, s |-> <<>>, elems |-> <<>>, keys |-> <<>>]

JsTrue == JsBoolean(TRUE)

JsFalse == JsBoolean(FALSE)

JsNumber(n) == [type |-> "number", b |-> FALSE, n |-> n, s |-> <<>>, elems |-> <<>>, keys |-> <<>>]

JsString(s) == [type |-> "string", b |-> FALSE, n |-> 0, s |-> s, elems |-> <<>>, keys |-> <<>>]

JsArray(elems) == [type |-> "array", b |-> FALSE, n |-> 0, s |-> <<>>, elems |-> elems, keys |-> <<>>]

\* an object with the member values elems under the member names keys
JsObject(keys, elems) == [type |-> "object", b |-> FALSE, n |-> 0, s |-> <<>>, elems |-> elems, keys |-> keys]

\* isTrueEquivalent without the case JsNumber(v) => v != 0
isTrueEquivalentNoNumberCase(v) ==
    CASE v.type = "boolean" -> v.b
      [] v.type = "null"    -> FALSE
      [] v.type = "string"  -> Len(v.s) # 0
      [] v.type = "array"   -> Len(v.elems) # 0
      [] OTHER              -> TRUE

\* JsFalse => false, JsNull => false, JsString(str) => !str.isEmpty,
\* JsNumber(v) => v != 0, JsArray(v) => v.length != 0, _ => true
isTrueEquivalent(v) ==
    CASE v.type = "boolean" -> v.b
      [] v.type = "null"    -> FALSE
      [] v.type = "string"  -> Len(v.s) # 0
      [] v.type = "number"  -> v.n # 0
      [] v.type = "array"   -> Len(v.elems) # 0
      [] OTHER              -> TRUE


----------------------------------------------------------------------------
(* ConciseOperand(isRef, value) *)

ConciseOperand(isRef, v) == [isRef |-> isRef, value |-> v]

\* refString without the test of isRef
refStringAnyOperand(operand) ==
    IF operand.value.type = "string" THEN Ok(operand.value.s)
    ELSE Err("InvalidReference")

\* throws for a non-ref operand and for a ref whose value is not a JsString
refString(operand) ==
    IF ~operand.isRef THEN Err("InvalidOperandUsage")
    ELSE IF operand.value.type = "string" THEN Ok(operand.value.s)
    ELSE Err("InvalidReference")

\* SortedSetAdd in which an element of a length already held takes the
\* place of the one held
SortedSetAddReplaces(sorted, p) ==
    IF \E i \in 1..Len(sorted) : Len(sorted[i]) = Len(p)
    THEN [i \in 1..Len(sorted) |-> IF Len(sorted[i]) = Len(p) THEN p ELSE sorted[i]]
    ELSE LET k == Cardinality({i \in 1..Len(sorted) : Len(sorted[i]) > Len(p)})
         IN  SubSeq(sorted, 1, k) \o <<p>> \o SubSeq(sorted, k + 1, Len(sorted))

\* SortedSet + elem under Ordering.by(_.length).reverse: an element whose
\* length is already in the set compares equal to the one held and is
\* not added; otherwise it goes after the longer ones
SortedSetAdd(sorted, p) ==
    IF \E i \in 1..Len(sorted) : Len(sorted[i]) = Len(p) THEN sorted
    ELSE LET k == Cardinality({i \in 1..Len(sorted) : Len(sorted[i]) > Len(p)})
         IN  SubSeq(sorted, 1, k) \o <<p>> \o SubSeq(sorted, k + 1, Len(sorted))

\* SortedSet.empty(...) ++ prefixes: the prefixes are added in the
\* iteration order of the set
RECURSIVE SortedPrefixes(_, _)
SortedPrefixes(sorted, ps) ==
    IF ps = <<>> THEN sorted
    ELSE SortedPrefixes(SortedSetAdd(sorted, Head(ps)), Tail(ps))

\* sortedPrefixes.foldLeft(refString) { startsWith => substring }
RECURSIVE StripPrefixes(_, _)
StripPrefixes(ref, sorted) ==
    IF sorted = <<>> THEN ref
    ELSE StripPrefixes(IF StartsWith(ref, Head(sorted))
                       THEN Substring(ref, Len(Head(sorted)))
                       ELSE ref,
                       Tail(sorted))

\* the fold, on what refString returned
FoldPrefixes(r, ps) ==
    IF ~r.ok THEN r ELSE Ok(StripPrefixes(r.val, SortedPrefixes(<<>>, ps)))

refStringWithoutPrefixes(operand, ps) == FoldPrefixes(refString(operand), ps)

\* refString.endsWith("[_]"), on what refString returned
EndsWithMarker(r) ==
    IF ~r.ok THEN r ELSE Ok(EndsWith(r.val, CollectionMarker))

isCollectionRef(operand) == EndsWithMarker(refString(operand))

AspectIdAndPath(aspectId, path, isCollection) ==
    [aspectId |-> aspectId, path |-> path, isCollection |-> isCollection]

\* (parts.head, parts.slice(1, if (isCollection) length - 1 else length),
\* isCollection)
HeadAndSlice(parts, isCollection) ==
    AspectIdAndPath(Head(parts),
                    SubSeq(parts, 2, IF isCollection THEN Len(parts) - 1
                                     ELSE Len(parts)),
                    isCollection)

\* FromParts with the collection flag read off a reference of fewer than 2
\* segments too
FromPartsFlagged(ref, parts) ==
    IF Len(parts) < 2
    THEN AspectIdAndPath(ref, <<>>, EndsWith(ref, CollectionMarker))
    ELSE HeadAndSlice(parts, EndsWith(parts[Len(parts)], CollectionMarker))

\* the result for the cleaned reference ref and its non-empty segments
FromParts(ref, parts) ==
    IF Len(parts) < 2
    THEN AspectIdAndPath(ref, <<>>, FALSE)
    ELSE HeadAndSlice(parts, EndsWith(parts[Len(parts)], CollectionMarker))

\* ref.split("\\.").filter(_ != "")
Parts(ref) == SelectSeq(Split(ref), NonEmpty)

FromRef(ref) == FromParts(ref, Parts(ref))

\* FromStripped that rejects a reference without any segment
FromStrippedNonEmpty(r) ==
    IF ~r.ok THEN r
    ELSE IF Parts(StripLeadingDot(r.val)) = <<>> THEN Err("InvalidReference")
    ELSE Ok(FromRef(StripLeadingDot(r.val)))

\* the body of extractAspectIdAndPath, on what refStringWithoutPrefixes
\* returned
FromStripped(r) ==
    IF ~r.ok THEN r ELSE Ok(FromRef(StripLeadingDot(r.val)))

extractAspectIdAndPath(operand, ps) ==
    FromStripped(refStringWithoutPrefixes(operand, ps))

\* AspectQueryValue: the typed comparison value of a literal
AspectQueryStringValue(s) == [type |-> "string", s |-> s, b |-> FALSE, n |-> 0]

AspectQueryBooleanValue(b) == [type |-> "boolean", s |-> <<>>, b |-> b, n |-> 0]

AspectQueryBigDecimalValue(n) == [type |-> "number", s |-> <<>>, b |-> FALSE, n |-> n]

\* toAspectQueryValue that turns every other JSON shape into the empty
\* string value
toAspectQueryValueLenient(operand) ==
    IF operand.isRef THEN Err("InvalidOperandUsage")
    ELSE CASE operand.value.type = "string"  -> Ok(AspectQueryStringValue(operand.value.s))
           [] operand.value.type = "boolean" -> Ok(AspectQueryBooleanValue(operand.value.b))
           [] operand.value.type = "number"  -> Ok(AspectQueryBigDecimalValue(operand.value.n))
           [] OTHER                          -> Ok(AspectQueryStringValue(<<>>))

toAspectQueryValue(operand) ==
    IF operand.isRef THEN Err("InvalidOperandUsage")
    ELSE CASE operand.value.type = "string"  -> Ok(AspectQueryStringValue(operand.value.s))
           [] operand.value.type = "boolean" -> Ok(AspectQueryBooleanValue(operand.value.b))
           [] operand.value.type = "number"  -> Ok(AspectQueryBigDecimalValue(operand.value.n))
           [] OTHER                          -> Err("UnsupportedValueType")

----------------------------------------------------------------------------
(* AspectQuery: the predicates.  One record shape for every variant. *)

NoAspectQueryValue == [type |-> "none", s |-> <<>>, b |-> FALSE, n |-> 0]

AspectQuery(kind, aspectId, path, v, operator, negated, placeReferenceFirst) ==
    [kind |-> kind, aspectId |-> aspectId, path |-> path, value |-> v,
     operator |-> operator, negated |-> negated,
     placeReferenceFirst |-> placeReferenceFirst]

AspectQueryTrue == AspectQuery("True", <<>>, <<>>, NoAspectQueryValue, "", FALSE, TRUE)

AspectQueryFalse == AspectQuery("False", <<>>, <<>>, NoAspectQueryValue, "", FALSE, TRUE)

AspectQueryExists(aspectId, path, negated) ==
    AspectQuery("Exists", aspectId, path, NoAspectQueryValue, "", negated, TRUE)

AspectQueryArrayNotEmpty(aspectId, path, negated) ==
    AspectQuery("ArrayNotEmpty", aspectId, path, NoAspectQueryValue, "", negated, TRUE)

AspectQueryValueInArray(aspectId, path, v, negated) ==
    AspectQuery("ValueInArray", aspectId, path, v, "", negated, TRUE)

AspectQueryWithValue(aspectId, path, v, operator, negated, placeReferenceFirst) ==
    AspectQuery("WithValue", aspectId, path, v, operator, negated, placeReferenceFirst)

AspectQueryGroup(queries, joinWithAnd, negated) ==
    [queries |-> queries, joinWithAnd |-> joinWithAnd, negated |-> negated]

\* AspectQueryGroup(queries = ...): joinWithAnd and negated keep their defaults
DefaultAspectQueryGroup(queries) == AspectQueryGroup(queries, TRUE, FALSE)

----------------------------------------------------------------------------
(* ConciseExpression(negated, operator, operands) *)

NoOperator == NoneOf("")

ConciseExpression(negated, operator, operands) ==
    [negated |-> negated, operator |-> operator, operands |-> operands]

\* toSqlOperator with > and < exchanged
toSqlOperatorExchanged(regoOperator) ==
    CASE regoOperator = "="  -> Ok("=")
      [] regoOperator = ">"  -> Ok("<")
      [] regoOperator = "<"  -> Ok(">")
      [] regoOperator = ">=" -> Ok(">=")
      [] regoOperator = "<=" -> Ok("<=")
      [] OTHER               -> Err("UnsupportedOperator")

toSqlOperator(regoOperator) ==
    CASE regoOperator = "="  -> Ok("=")
      [] regoOperator = ">"  -> Ok(">")
      [] regoOperator = "<"  -> Ok("<")
      [] regoOperator = ">=" -> Ok(">=")
      [] regoOperator = "<=" -> Ok("<=")
      [] OTHER               -> Err("UnsupportedOperator")

IsRef(operand) == operand.isRef

\* r with the collection flag inverted
ExchangeCollection(r) ==
    IF ~r.ok THEN r
    ELSE Ok([r.val EXCEPT !.isCollection = ~r.val.isCollection])

IsVal(operand) == ~operand.isRef

\* OneOperandQuery with the negated flag of the predicate inverted
OneOperandQueryInverted(e, r) ==
    IF ~r.ok THEN r
    ELSE IF r.val.isCollection
    THEN Ok(AspectQueryArrayNotEmpty(r.val.aspectId, r.val.path, ~e.negated))
    ELSE Ok(AspectQueryExists(r.val.aspectId, r.val.path, ~e.negated))

\* the branch for operands.length == 1, on what extractAspectIdAndPath
\* returned
OneOperandQuery(e, r) ==
    IF ~r.ok THEN r
    ELSE IF r.val.isCollection
    THEN Ok(AspectQueryArrayNotEmpty(r.val.aspectId, r.val.path, e.negated))
    ELSE Ok(AspectQueryExists(r.val.aspectId, r.val.path, e.negated))

\* toAspectQuery1 with the two predicates exchanged
toAspectQuery1Exchanged(e, ps) ==
    OneOperandQuery(e, ExchangeCollection(extractAspectIdAndPath(e.operands[1], ps)))

toAspectQuery1(e, ps) ==
    OneOperandQuery(e, extractAspectIdAndPath(e.operands[1], ps))

\* AspectQueryValueInArray(aspectId, path, valOperand.get.toAspectQueryValue,
\* negated), on what toAspectQueryValue returned
ValueInArrayQuery(e, ref, v) ==
    IF ~v.ok THEN v
    ELSE Ok(AspectQueryValueInArray(ref.aspectId, ref.path, v.val, e.negated))

\* OperatorOf in which an absent operator stands for "="
OperatorOfDefaultsToEquals(e) ==
    IF ~e.operator.present THEN toSqlOperator("=")
    ELSE toSqlOperator(e.operator.get)

\* toSqlOperator(operator.get)
OperatorOf(e) ==
    IF ~e.operator.present THEN Err("NoSuchElement")
    ELSE toSqlOperator(e.operator.get)

\* WithValueQuery with placeReferenceFirst = true, whatever the operand order
WithValueQueryReferenceFirst(e, ref, v, o) ==
    IF ~v.ok THEN v
    ELSE IF ~o.ok THEN o
    ELSE Ok(AspectQueryWithValue(ref.aspectId, ref.path, v.val, o.val,
                                 e.negated, TRUE))

\* AspectQueryWithValue(...): the arguments are evaluated in order, the value
\* before the operator
WithValueQuery(e, ref, v, o) ==
    IF ~v.ok THEN v
    ELSE IF ~o.ok THEN o
    ELSE Ok(AspectQueryWithValue(ref.aspectId, ref.path, v.val, o.val,
                                 e.negated, e.operands[1].isRef))

\* TwoOperandQuery without the check of the operator of a collection
\* reference
TwoOperandQueryAnyOperator(e, r, valOperand) ==
    IF ~r.ok THEN r
    ELSE IF r.val.isCollection /\ ~e.operator.present
    THEN Err("NoSuchElement")
    ELSE IF r.val.isCollection
    THEN ValueInArrayQuery(e, r.val, toAspectQueryValue(valOperand))
    ELSE WithValueQuery(e, r.val, toAspectQueryValue(valOperand), OperatorOf(e))

\* the branch for operands.length == 2 from extractAspectIdAndPath on
TwoOperandQuery(e, r, valOperand) ==
    IF ~r.ok THEN r
    ELSE IF r.val.isCollection /\ ~e.operator.present
    THEN Err("NoSuchElement")
    ELSE IF r.val.isCollection /\ e.operator.get # "="
    THEN Err("UnsupportedOperatorForCollection")
    ELSE IF r.val.isCollection
    THEN ValueInArrayQuery(e, r.val, toAspectQueryValue(valOperand))
    ELSE WithValueQuery(e, r.val, toAspectQueryValue(valOperand), OperatorOf(e))

\* toAspectQuery2 without the two checks of the operand kinds: the first
\* operand is taken as the reference, the second as the value
toAspectQuery2Unchecked(e, ps) ==
    TwoOperandQuery(e, extractAspectIdAndPath(e.operands[1], ps), e.operands[2])

\* the branch for operands.length == 2
toAspectQuery2(e, ps) ==
    IF SelectSeq(e.operands, IsVal) = <<>>
    THEN Err("UnsupportedExpressionShape")
    ELSE IF SelectSeq(e.operands, IsRef) = <<>>
    THEN Err("UnsupportedExpressionShape")
    ELSE TwoOperandQuery(
             e,
             extractAspectIdAndPath(Head(SelectSeq(e.operands, IsRef)), ps),
             Head(SelectSeq(e.operands, IsVal)))

\* toAspectQuery that compiles the first two operands of a longer list
toAspectQueryAtLeastTwo(e, ps) ==
    IF Len(e.operands) = 1 THEN toAspectQuery1(e, ps)
    ELSE IF Len(e.operands) >= 2 THEN toAspectQuery2(e, ps)
    ELSE Err("TooManyOperands")

\* toAspectQuery that compiles an empty operand list to the True predicate
toAspectQueryEmptyIsTrue(e, ps) ==
    IF Len(e.operands) = 0 THEN Ok(AspectQueryTrue)
    ELSE IF Len(e.operands) = 1 THEN toAspectQuery1(e, ps)
    ELSE IF Len(e.operands) = 2 THEN toAspectQuery2(e, ps)
    ELSE Err("TooManyOperands")

toAspectQuery(e, ps) ==
    IF Len(e.operands) = 1 THEN toAspectQuery1(e, ps)
    ELSE IF Len(e.operands) = 2 THEN toAspectQuery2(e, ps)
    ELSE Err("TooManyOperands")

----------------------------------------------------------------------------
(* ConciseRule(default, value, fullName, name, expressions) *)

\* Cons that leaves out an element that threw
ConsSkipFailed(x, rest) ==
    IF ~x.ok THEN rest
    ELSE IF ~rest.ok THEN rest
    ELSE Ok(<<x.val>> \o rest.val)

\* Cons that maps the rest of the list before the element
ConsRestFirst(x, rest) ==
    IF ~rest.ok THEN rest
    ELSE IF ~x.ok THEN x
    ELSE Ok(<<x.val>> \o rest.val)

\* Cons that puts the element after the rest of the list
ConsReversed(x, rest) ==
    IF ~x.ok THEN x
    ELSE IF ~rest.ok THEN rest
    ELSE Ok(rest.val \o <<x.val>>)

\* one step of List.map: the element then the rest, the first throw wins
Cons(x, rest) ==
    IF ~x.ok THEN x
    ELSE IF ~rest.ok THEN rest
    ELSE Ok(<<x.val>> \o rest.val)

ConciseRule(default, v, fullName, name, expressions) ==
    [default |-> default, value |-> v, fullName |-> fullName, name |-> name,
     expressions |-> expressions]

\* expressions.map(_.toAspectQuery(prefixes)): in list order, the first
\* throw ends the map
RECURSIVE MapToAspectQuery(_, _)
MapToAspectQuery(es, ps) ==
    IF es = <<>> THEN Ok(<<>>)
    ELSE Cons(toAspectQuery(Head(es), ps), MapToAspectQuery(Tail(es), ps))

\* GroupOf with negated = isTrueEquivalent(value)
GroupOfNotInverted(queries, v) ==
    IF ~queries.ok THEN queries
    ELSE Ok(AspectQueryGroup(queries.val, TRUE, isTrueEquivalent(v)))

\* AspectQueryGroup(queries = ..., joinWithAnd = true,
\* negated = !isTrueEquivalent(value))
GroupOf(queries, v) ==
    IF ~queries.ok THEN queries
    ELSE Ok(AspectQueryGroup(queries.val, TRUE, ~isTrueEquivalent(v)))

toAspectQueryGroup(r, ps) ==
    GroupOf(MapToAspectQuery(r.expressions, ps), r.value)

----------------------------------------------------------------------------
(* AuthDecision(hasResidualRules, result, residualRules, hasWarns, warns,  *)
(* unknowns)                                                               *)

AuthDecision(hasResidualRules, res, residualRules, hasWarns, warns, unknowns) ==
    [hasResidualRules |-> hasResidualRules, result |-> res,
     residualRules |-> residualRules, hasWarns |-> hasWarns, warns |-> warns,
     unknowns |-> unknowns]

\* residualRules.toList.flatten.map(_.toAspectQueryGroup(prefixes))
RECURSIVE MapToAspectQueryGroup(_, _)
MapToAspectQueryGroup(rs, ps) ==
    IF rs = <<>> THEN Ok(<<>>)
    ELSE Cons(toAspectQueryGroup(Head(rs), ps),
              MapToAspectQueryGroup(Tail(rs), ps))

\* toAspectQueryGroups with result.getOrElse(JsTrue)
toAspectQueryGroupsAbsentIsTrue(d, ps) ==
    IF d.hasResidualRules
    THEN MapToAspectQueryGroup(IF d.residualRules.present
                               THEN d.residualRules.get ELSE <<>>, ps)
    ELSE IF isTrueEquivalent(IF d.result.present THEN d.result.get ELSE JsTrue)
    THEN Ok(<<DefaultAspectQueryGroup(<<AspectQueryTrue>>)>>)
    ELSE Ok(<<DefaultAspectQueryGroup(<<AspectQueryFalse>>)>>)

\* toAspectQueryGroups in which a truthy result makes the decision
\* unconditional before the residual rules are looked at
toAspectQueryGroupsResultFirst(d, ps) ==
    IF d.result.present /\ isTrueEquivalent(d.result.get)
    THEN Ok(<<DefaultAspectQueryGroup(<<AspectQueryTrue>>)>>)
    ELSE IF d.hasResidualRules
    THEN MapToAspectQueryGroup(IF d.residualRules.present
                               THEN d.residualRules.get ELSE <<>>, ps)
    ELSE IF isTrueEquivalent(IF d.result.present THEN d.result.get ELSE JsFalse)
    THEN Ok(<<DefaultAspectQueryGroup(<<AspectQueryTrue>>)>>)
    ELSE Ok(<<DefaultAspectQueryGroup(<<AspectQueryFalse>>)>>)

\* toAspectQueryGroups in which absent residual rules leave the decision
\* to the result
toAspectQueryGroupsAbsentRulesUseResult(d, ps) ==
    IF d.hasResidualRules /\ d.residualRules.present
    THEN MapToAspectQueryGroup(d.residualRules.get, ps)
    ELSE IF isTrueEquivalent(IF d.result.present THEN d.result.get ELSE JsFalse)
    THEN Ok(<<DefaultAspectQueryGroup(<<AspectQueryTrue>>)>>)
    ELSE Ok(<<DefaultAspectQueryGroup(<<AspectQueryFalse>>)>>)

toAspectQueryGroups(d, ps) ==
    IF d.hasResidualRules
    THEN MapToAspectQueryGroup(IF d.residualRules.present
                               THEN d.residualRules.get ELSE <<>>, ps)
    ELSE IF isTrueEquivalent(IF d.result.present THEN d.result.get ELSE JsFalse)
    THEN Ok(<<DefaultAspectQueryGroup(<<AspectQueryTrue>>)>>)
    ELSE Ok(<<DefaultAspectQueryGroup(<<AspectQueryFalse>>)>>)

----------------------------------------------------------------------------
(* SQL.  An expression is a tree: op is the connective or the kind of the  *)
(* probe, args the operands, q the predicate a probe renders.              *)

NoAspectQuery == AspectQuery("none", <<>>, <<>>, NoAspectQueryValue, "", FALSE, TRUE)

SqlNode(op, args, q) == [op |-> op, args |-> args, q |-> q]

NoSql == SqlNode("", <<>>, NoAspectQuery)

SqlTrue == SqlNode("TRUE", <<>>, NoAspectQuery)

SqlFalse == SqlNode("FALSE", <<>>, NoAspectQuery)

SqlNot(x) == SqlNode("NOT", <<x>>, NoAspectQuery)

\* the rendering of one predicate: TRUE, FALSE, or the probe of its kind,
\* inside NOT when the predicate is negated
Probe(q) == SqlNode(q.kind, <<>>, [q EXCEPT !.negated = FALSE])

AspectQueryToSql(q) ==
    CASE q.kind = "True"  -> SqlTrue
      [] q.kind = "False" -> SqlFalse
      [] OTHER            -> IF q.negated THEN SqlNot(Probe(q)) ELSE Probe(q)

\* the rendering of one group: its predicates joined with AND (OR when
\* joinWithAnd is false), inside NOT when the group is negated
Joined(g) ==
    SqlNode(IF g.joinWithAnd THEN "AND" ELSE "OR",
            [i \in 1..Len(g.queries) |-> AspectQueryToSql(g.queries[i])],
            NoAspectQuery)

NotIf(negated, x) == IF negated THEN SqlNot(x) ELSE x

AspectQueryGroupToSql(g) == Some(NotIf(g.negated, Joined(g)))

RECURSIVE Flatten(_)
Flatten(os) ==
    IF os = <<>> THEN <<>>
    ELSE (IF Head(os).present THEN <<Head(os).get>> ELSE <<>>) \o Flatten(Tail(os))

\* SQLSyntax.toOrConditionOpt(conditions: Option[SQLSyntax]*): the conditions
\* present joined with OR, None when there is none
JoinWithOr(cs) ==
    IF cs = <<>> THEN NoneOf(NoSql) ELSE Some(SqlNode("OR", cs, NoAspectQuery))

toOrConditionOpt(conditions) == JoinWithOr(Flatten(conditions))

roundBracket(x) == SqlNode("()", <<x>>, NoAspectQuery)

\* .map(SQLSyntax.roundBracket(_))
MapRoundBracket(o) == IF o.present THEN Some(roundBracket(o.get)) ELSE o

\* .map(_.toSql(recordIdSqlRef, tenantIdSqlRef))
MapGroupToSql(groups) ==
    [i \in 1..Len(groups) |-> AspectQueryGroupToSql(groups[i])]

\* the body of toSql, on what toAspectQueryGroups returned
SqlOfGroups(groups) ==
    IF ~groups.ok THEN groups
    ELSE Ok(MapRoundBracket(toOrConditionOpt(MapGroupToSql(groups.val))))

toSql(d, ps) == SqlOfGroups(toAspectQueryGroups(d, ps))

----------------------------------------------------------------------------
(* JsonPathUtils: a record patch is split into one patch per aspect.  A    *)
(* pointer is the sequence of its segments; an operation has one record    *)
(* shape for every kind (from is empty but for Move and Copy, value is     *)
(* "none" but for Add).  Applying a patch to a record or to an aspect is   *)
(* the work of the JSON patch library: a patched record is written as the  *)
(* operations and callbacks that were applied to it.                       *)

PatchOp(kind, from, path, v) == [op |-> kind, from |-> from, path |-> path, value |-> v]

Add(path, v) == PatchOp("add", <<>>, path, v)

Remove(path) == PatchOp("remove", <<>>, path, "none")

Replace(path) == PatchOp("replace", <<>>, path, "none")

Move(from, path) == PatchOp("move", from, path, "none")

Copy(from, path) == PatchOp("copy", from, path, "none")

Test(path) == PatchOp("test", <<>>, path, "none")

\* the pattern "aspects" / (name / rest)
InAspect(pointer) == Len(pointer) >= 2 /\ pointer[1] = "aspects"

AspectName(pointer) == pointer[2]

Rest(pointer) == SubSeq(pointer, 3, Len(pointer))

\* the operations of one group: those whose path is in the aspect
RECURSIVE OperationsOf(_, _)
OperationsOf(ops, aspectId) ==
    IF ops = <<>> THEN <<>>
    ELSE IF InAspect(Head(ops).path) /\ AspectName(Head(ops).path) = aspectId
    THEN <<Head(ops)>> \o OperationsOf(Tail(ops), aspectId)
    ELSE OperationsOf(Tail(ops), aspectId)

\* the keys of the groups that pass filterKeys(_.isDefined)
AspectIds(ops) ==
    {AspectName(ops[i].path) : i \in {k \in 1..Len(ops) : InAspect(ops[k].path)}}

\* a call of one of the three callbacks
Callback(name, aspectId, ops) == [callback |-> name, aspectId |-> aspectId, ops |-> ops]

onReplaceAspect(aspectId) == Callback("onReplaceAspect", aspectId, <<>>)

onPatchAspect(aspectId, ops) == Callback("onPatchAspect", aspectId, ops)

onDeleteAspect(aspectId) == Callback("onDeleteAspect", aspectId, <<>>)

\* Move or Copy made relative, whatever the two aspects are
RelativeMoveUnchecked(o) ==
    IF ~InAspect(o.from) THEN Err("UnsupportedOperation")
    ELSE Ok(PatchOp(o.op, Rest(o.from), Rest(o.path), "none"))

\* the cases Move and Copy of the map: both pointers in one aspect
RelativeMove(o) ==
    IF ~InAspect(o.from) THEN Err("UnsupportedOperation")
    ELSE IF AspectName(o.from) # AspectName(o.path)
    THEN Err("CrossNamespaceOperationUnsupported")
    ELSE Ok(PatchOp(o.op, Rest(o.from), Rest(o.path), "none"))

\* one operation with its paths made relative to the aspect
Relative(o) ==
    IF o.op \in {"move", "copy"} THEN RelativeMove(o)
    ELSE Ok(PatchOp(o.op, <<>>, Rest(o.path), o.value))

\* operations.map({ ... }): in list order, the first throw ends the map
RECURSIVE MapRelative(_)
MapRelative(ops) ==
    IF ops = <<>> THEN Ok(<<>>)
    ELSE Cons(Relative(Head(ops)), MapRelative(Tail(ops)))

\* onPatchAspect(aspectId, JsonPatch(...)) on what the map returned
PatchOf(aspectId, relative) ==
    IF ~relative.ok THEN relative
    ELSE Ok(onPatchAspect(aspectId, relative.val))

\* the case of exactly one Add: aValue.asJsObject throws for a value that
\* is no object
SingleAdd(aspectId, o) ==
    IF Rest(o.path) = <<>>
    THEN IF o.value = "object" THEN Ok(onReplaceAspect(aspectId))
         ELSE Err("DeserializationError")
    ELSE Ok(onPatchAspect(aspectId, <<Add(Rest(o.path), o.value)>>))

\* the case of exactly one Remove
SingleRemove(aspectId, o) ==
    IF Rest(o.path) = <<>>
    THEN Ok(onDeleteAspect(aspectId))
    ELSE Ok(onPatchAspect(aspectId, <<Remove(Rest(o.path))>>))

\* the function of the map over the groups
ProcessGroup(aspectId, operations) ==
    IF Len(operations) = 1 /\ operations[1].op = "add"
    THEN SingleAdd(aspectId, operations[1])
    ELSE IF Len(operations) = 1 /\ operations[1].op = "remove"
    THEN SingleRemove(aspectId, operations[1])
    ELSE PatchOf(aspectId, MapRelative(operations))

\* the map over the groups, in the iteration order of the grouped map
RECURSIVE MapGroups(_, _)
MapGroups(ops, order) ==
    IF order = <<>> THEN Ok(<<>>)
    ELSE Cons(ProcessGroup(Head(order), OperationsOf(ops, Head(order))),
              MapGroups(ops, Tail(order)))

\* order is the iteration order of the groups
processRecordPatchOperationsOnAspects(p, order) == MapGroups(p, order)

\* recordPatch.filter: the operations whose path is not under "aspects"
OutsideAspects(o) == ~(Len(o.path) >= 1 /\ o.path[1] = "aspects")

recordOnlyPatch(p) == SelectSeq(p, OutsideAspects)

\* the patched record: the record-only operations applied, then the
\* callbacks in the order they were called
Patched(only, calls) ==
    IF ~calls.ok THEN calls
    ELSE Ok([recordOnly |-> only, callbacks |-> calls.val])

getPatchedRecord(p, order) ==
    Patched(recordOnlyPatch(p), processRecordPatchOperationsOnAspects(p, order))

\* its filter has one more case, for a path equal to "authnReadPolicyId"
applyJsonPathToRecordContextData(p, order) ==
    Patched(recordOnlyPatch(p), processRecordPatchOperationsOnAspects(p, order))

----------------------------------------------------------------------------
(* The inputs *)

\* "p" is a prefix, "a" an aspect id, "o" and "t" fields of the aspect
RefField == <<"p", ".", "a", ".", "o">>

RefCollection == <<"p", ".", "a", ".", "t", "[", "_", "]">>

RefRecord == <<"a">>

PrefixP == <<"p">>

PrefixPDot == <<"p", ".">>

PrefixADot == <<"a", ".">>

\* the prefix sets the calls are made with, in iteration order; the last
\* one holds two prefixes of the same length
PrefixSets ==
    {<<>>, <<PrefixP>>, <<PrefixP, PrefixPDot>>, <<PrefixPDot, PrefixADot>>}

JsScalars ==
    {JsNull, JsTrue, JsFalse}
    \cup {JsNumber(n) : n \in -MaxNum..MaxNum}
    \cup {JsString(s) : s \in {<<>>, <<"x">>, <<"0">>}}

JsArrays ==
    {JsArray(<<>>), JsArray(<<JsArray(<<>>)>>)}
    \cup {JsArray(<<v>>) : v \in JsScalars}

JsObjects ==
    {JsObject(<<>>, <<>>)}
    \cup {JsObject(<<"k">>, <<v>>) : v \in JsScalars}

JsValues == JsScalars \cup JsArrays \cup JsObjects

\* the operands of the expressions: references (the last one is not a
\* string) and literals (the last one has no AspectQueryValue)
RefOperands ==
    {ConciseOperand(TRUE, v) :
        v \in {JsString(RefField), JsString(RefCollection), JsString(RefRecord),
               JsNumber(1)}}

ValOperands ==
    {ConciseOperand(FALSE, v) :
        v \in {JsString(<<"x">>), JsTrue, JsNumber(1), JsNull}}

Operands == RefOperands \cup ValOperands

Operators == Option({"=", ">", "<", ">=", "<=", "!="}, "")

Expressions ==
    {ConciseExpression(negated, operator, operands) :
        negated \in BOOLEAN, operator \in Operators,
        operands \in SeqsUpTo(Operands, MaxOperands)}

\* the expressions of the rules: Exists, WithValue, ValueInArray, and one
\* that does not compile
ExistsExpression ==
    ConciseExpression(FALSE, NoOperator, <<ConciseOperand(TRUE, JsString(RefField))>>)

WithValueExpression ==
    ConciseExpression(TRUE, Some("<"), <<ConciseOperand(FALSE, JsNumber(1)),
                                         ConciseOperand(TRUE, JsString(RefField))>>)

ValueInArrayExpression ==
    ConciseExpression(FALSE, Some("="), <<ConciseOperand(TRUE, JsString(RefCollection)),
                                          ConciseOperand(FALSE, JsString(<<"x">>))>>)

NoOperandExpression == ConciseExpression(FALSE, Some("="), <<>>)

\* a second one that does not compile, for another reason
TwoReferencesExpression ==
    ConciseExpression(FALSE, Some("="), <<ConciseOperand(TRUE, JsString(RefField)),
                                          ConciseOperand(TRUE, JsString(RefRecord))>>)

RuleExpressions ==
    {ExistsExpression, WithValueExpression, ValueInArrayExpression,
     NoOperandExpression, TwoReferencesExpression}

Rules ==
    {ConciseRule(default, v, fullName, name, expressions) :
        default \in BOOLEAN, v \in JsValues,
        fullName \in {"data.object.record.allow", "data.x.allow"},
        name \in {"allow", "deny"},
        expressions \in SeqsUpTo(RuleExpressions, MaxExprs)}

\* the rules of the decisions
DecisionRules ==
    {ConciseRule(TRUE, v, "data.object.record.allow", "allow", <<ExistsExpression>>) :
        v \in {JsTrue, JsFalse}}
    \cup {ConciseRule(TRUE, JsTrue, "data.object.record.allow", "allow", expressions) :
             expressions \in {<<NoOperandExpression>>,
                               <<ExistsExpression, WithValueExpression>>}}
    \cup {ConciseRule(TRUE, JsFalse, "data.object.record.allow", "allow",
                       <<TwoReferencesExpression, NoOperandExpression>>)}

NoRules == NoneOf(<<>>)

Decisions ==
    {AuthDecision(hasResidualRules, res, residualRules, hasWarns, warns, unknowns) :
        hasResidualRules \in BOOLEAN,
        res \in Option({JsTrue, JsFalse, JsNull, JsString(<<"x">>),
                        JsArray(<<>>), JsObject(<<>>, <<>>)}, JsNull),
        residualRules \in Option(SeqsUpTo(DecisionRules, MaxRules), <<>>),
        hasWarns \in BOOLEAN,
        warns \in Option({<<"w">>}, <<>>),
        unknowns \in Option({<<"input.object">>}, <<>>)}

\* the pieces the reference strings of the operand calls are made of
RefTokens == {<<"p">>, <<"a">>, <<".">>, CollectionMarker}

RECURSIVE Concat(_)
Concat(tokens) ==
    IF tokens = <<>> THEN <<>> ELSE Head(tokens) \o Concat(Tail(tokens))

RefStrings == {Concat(tokens) : tokens \in SeqsUpTo(RefTokens, MaxTokens)}

\* the operands the methods of ConciseOperand are called on: references
\* with any of the reference strings or any other JSON value, and literals
\* with any JSON value or the string of a reference
MethodOperands ==
    {ConciseOperand(TRUE, v) : v \in {JsString(s) : s \in RefStrings} \cup JsValues}
    \cup {ConciseOperand(FALSE, v) :
             v \in {JsString(RefField), JsString(RefCollection)} \cup JsValues}

IsInjective(ps) == \A i, j \in 1..Len(ps) : ps[i] = ps[j] => i = j

PrefixA == <<"a">>

\* one pool with two prefixes of the greater length, one whose shorter
\* prefix leads what the longer one leaves of p.a
PrefixPools == {{PrefixP, PrefixPDot, PrefixADot}, {PrefixA, PrefixPDot}}

\* the prefix sets of the operand calls: every subset of a pool, in every
\* iteration order
PrefixSeqs ==
    UNION {{ps \in SeqsUpTo(pool, Cardinality(pool)) : IsInjective(ps)} :
              pool \in PrefixPools}

\* the pointers of the record patches: a field of the record, the aspect
\* a, a field of it and a field of the aspect b
PointerName == <<"name">>

PointerA == <<"aspects", "a">>

PointerAX == <<"aspects", "a", "x">>

PointerBY == <<"aspects", "b", "y">>

Pointers == {PointerName, PointerA, PointerAX, PointerBY}

PatchOps ==
    {Add(path, "object") : path \in Pointers}
    \cup {Add(PointerA, "other"), Replace(PointerAX), Test(PointerAX)}
    \cup {Remove(path) : path \in Pointers}
    \cup {Move(from, path) : from \in Pointers, path \in Pointers}
    \cup {Copy(from, path) : from \in Pointers, path \in Pointers}

RecordPatches == SeqsUpTo(PatchOps, MaxOps)

----------------------------------------------------------------------------
(* The state machine: one call of one function *)

NoResult == [ok |-> FALSE, val |-> FALSE, err |-> "pending"]

IdleExpression == ConciseExpression(FALSE, NoOperator, <<>>)

IdleRule == ConciseRule(FALSE, JsNull, "", "", <<>>)

IdleDecision == AuthDecision(FALSE, NoneOf(JsNull), NoRules, FALSE, NoneOf(<<>>), NoneOf(<<>>))

IdleOperand == ConciseOperand(FALSE, JsNull)

InitIsTrueEquivalent ==
    /\ fn = "isTrueEquivalent"
    /\ value \in JsValues
    /\ expression = IdleExpression
    /\ rule = IdleRule
    /\ decision = IdleDecision
    /\ thisOperand = IdleOperand
    /\ prefixes = <<>>

InitToAspectQuery ==
    /\ fn = "toAspectQuery"
    /\ value = JsNull
    /\ expression \in Expressions
    /\ rule = IdleRule
    /\ decision = IdleDecision
    /\ thisOperand = IdleOperand
    /\ prefixes \in PrefixSets

InitToAspectQueryGroup ==
    /\ fn = "toAspectQueryGroup"
    /\ value = JsNull
    /\ expression = IdleExpression
    /\ rule \in Rules
    /\ decision = IdleDecision
    /\ thisOperand = IdleOperand
    /\ prefixes \in PrefixSets

InitDecision ==
    /\ fn \in {"toAspectQueryGroups", "toSql"}
    /\ value = JsNull
    /\ expression = IdleExpression
    /\ rule = IdleRule
    /\ decision \in Decisions
    /\ thisOperand = IdleOperand
    /\ prefixes \in PrefixSets

\* refString and toAspectQueryValue take no prefix set
InitOperand ==
    /\ fn \in {"refString", "toAspectQueryValue"}
    /\ value = JsNull
    /\ expression = IdleExpression
    /\ rule = IdleRule
    /\ decision = IdleDecision
    /\ thisOperand \in MethodOperands
    /\ prefixes = <<>>

InitOperandWithPrefixes ==
    /\ fn \in {"refStringWithoutPrefixes", "extractAspectIdAndPath"}
    /\ value = JsNull
    /\ expression = IdleExpression
    /\ rule = IdleRule
    /\ decision = IdleDecision
    /\ thisOperand \in MethodOperands
    /\ prefixes \in PrefixSeqs

Init ==
    /\ pc = "call"
    /\ result = NoResult
    /\ recordPatch = <<>>
    /\ \/ InitIsTrueEquivalent
       \/ InitToAspectQuery
       \/ InitToAspectQueryGroup
       \/ InitDecision
       \/ InitOperand
       \/ InitOperandWithPrefixes

Return(r) ==
    /\ result' = r
    /\ pc' = "done"
    /\ UNCHANGED <<fn, value, expression, rule, decision, recordPatch, thisOperand, prefixes>>

IsTrueEquivalent ==
    /\ pc = "call"
    /\ fn = "isTrueEquivalent"
    /\ Return(Ok(isTrueEquivalent(value)))

ToAspectQuery ==
    /\ pc = "call"
    /\ fn = "toAspectQuery"
    /\ Return(toAspectQuery(expression, prefixes))

ToAspectQueryGroup ==
    /\ pc = "call"
    /\ fn = "toAspectQueryGroup"
    /\ Return(toAspectQueryGroup(rule, prefixes))

ToAspectQueryGroups ==
    /\ pc = "call"
    /\ fn = "toAspectQueryGroups"
    /\ Return(toAspectQueryGroups(decision, prefixes))

ToSql ==
    /\ pc = "call"
    /\ fn = "toSql"
    /\ Return(toSql(decision, prefixes))

RefString ==
    /\ pc = "call"
    /\ fn = "refString"
    /\ Return(refString(thisOperand))

RefStringWithoutPrefixes ==
    /\ pc = "call"
    /\ fn = "refStringWithoutPrefixes"
    /\ Return(refStringWithoutPrefixes(thisOperand, prefixes))

ExtractAspectIdAndPath ==
    /\ pc = "call"
    /\ fn = "extractAspectIdAndPath"
    /\ Return(extractAspectIdAndPath(thisOperand, prefixes))

ToAspectQueryValue ==
    /\ pc = "call"
    /\ fn = "toAspectQueryValue"
    /\ Return(toAspectQueryValue(thisOperand))

Next ==
    \/ IsTrueEquivalent
    \/ ToAspectQuery
    \/ ToAspectQueryGroup
    \/ ToAspectQueryGroups
    \/ ToSql
    \/ RefString
    \/ RefStringWithoutPrefixes
    \/ ExtractAspectIdAndPath
    \/ ToAspectQueryValue

Spec == Init /\ [][Next]_vars

----------------------------------------------------------------------------
(* The state machine of JsonPathUtils: one call of one function on a       *)
(* record patch                                                            *)

PatchInit ==
    /\ pc = "call"
    /\ result = NoResult
    /\ fn \in {"processRecordPatchOperationsOnAspects", "getPatchedRecord",
               "applyJsonPathToRecordContextData"}
    /\ recordPatch \in RecordPatches
    /\ value = JsNull
    /\ expression = IdleExpression
    /\ rule = IdleRule
    /\ decision = IdleDecision
    /\ thisOperand = IdleOperand
    /\ prefixes = <<>>

\* the orders in which the grouped map may hand over its groups
GroupOrders(ops) ==
    {order \in SeqsUpTo(AspectIds(ops), Cardinality(AspectIds(ops))) :
        Len(order) = Cardinality(AspectIds(ops)) /\ IsInjective(order)}

ProcessRecordPatchOperationsOnAspects ==
    /\ pc = "call"
    /\ fn = "processRecordPatchOperationsOnAspects"
    /\ \E order \in GroupOrders(recordPatch) :
          Return(processRecordPatchOperationsOnAspects(recordPatch, order))

GetPatchedRecord ==
    /\ pc = "call"
    /\ fn = "getPatchedRecord"
    /\ \E order \in GroupOrders(recordPatch) :
          Return(getPatchedRecord(recordPatch, order))

ApplyJsonPathToRecordContextData ==
    /\ pc = "call"
    /\ fn = "applyJsonPathToRecordContextData"
    /\ \E order \in GroupOrders(recordPatch) :
          Return(applyJsonPathToRecordContextData(recordPatch, order))

PatchNext ==
    \/ ProcessRecordPatchOperationsOnAspects
    \/ GetPatchedRecord
    \/ ApplyJsonPathToRecordContextData

PatchSpec == PatchInit /\ [][PatchNext]_vars

----------------------------------------------------------------------------
(* The properties *)

Done(f) == pc = "done" /\ fn = f

\* the truthiness table: the values that are not true-equivalent
FalsyValues == {JsFalse, JsNull, JsString(<<>>), JsNumber(0), JsArray(<<>>)}

\* the result of the decision is present and truthy
TruthyResult(d) == d.result.present /\ d.result.get \notin FalsyValues

\* C1: a decision with hasResidualRules = false compiles, without error and
\* whatever its other fields hold, to exactly one group holding exactly one
\* predicate: True when result is present and truthy, False when result is
\* falsy or absent.
C1_UnconditionalDecision ==
    (Done("toAspectQueryGroups") /\ ~decision.hasResidualRules) =>
        /\ result.ok
        /\ Len(result.val) = 1
        /\ result.val[1].queries =
               IF TruthyResult(decision) THEN <<AspectQueryTrue>>
               ELSE <<AspectQueryFalse>>

\* C1 witness: an absent result, beside two residual rules and warnings,
\* compiled to the one False predicate
C1_Witness ==
    /\ Done("toAspectQueryGroups")
    /\ ~decision.hasResidualRules
    /\ ~decision.result.present
    /\ decision.residualRules.present
    /\ Len(decision.residualRules.get) = 2
    /\ decision.hasWarns
    /\ result.ok
    /\ result.val[1].queries = <<AspectQueryFalse>>

\* C2 (as claimed): with hasResidualRules = true and an empty residualRules
\* list, toSql emits an expression, and that expression is FALSE.
C2_EmptyRulesRenderFalse ==
    (/\ Done("toSql")
     /\ decision.hasResidualRules
     /\ decision.residualRules.present
     /\ decision.residualRules.get = <<>>) =>
        /\ result.ok
        /\ result.val.present
        /\ result.val.get \in {SqlFalse, roundBracket(SqlFalse)}

\* the decision is unconditionally true
UnconditionallyTrue(d) == ~d.hasResidualRules /\ TruthyResult(d)

\* C3 (as claimed): whenever toSql returns no expression, the decision is
\* unconditionally true.
C3_AbsentOnlyWhenUnconditionallyTrue ==
    (Done("toSql") /\ result.ok /\ ~result.val.present) =>
        UnconditionallyTrue(decision)

\* C4: the group toAspectQueryGroup yields has joinWithAnd = true and
\* negated = not isTruthy(rule.value): negated for the values false, null,
\* "", 0 and [], not negated for every other value; default, name and
\* fullName have no part in it.
C4_GroupNegation ==
    (Done("toAspectQueryGroup") /\ result.ok) =>
        /\ result.val.joinWithAnd
        /\ result.val.negated = (rule.value \in FalsyValues)

\* C4 witness: a rule with default = true and the value [] compiled to a
\* negated group of two predicates
C4_Witness ==
    /\ Done("toAspectQueryGroup")
    /\ rule.default
    /\ rule.value = JsArray(<<>>)
    /\ result.ok
    /\ Len(result.val.queries) = 2
    /\ result.val.negated

\* C5: isTrueEquivalent returns, for every JSON value, false exactly for
\* false, null, "", 0 and [], and true for every other value.
C5_TruthinessTable ==
    Done("isTrueEquivalent") =>
        /\ result.ok
        /\ result.val = (value \notin FalsyValues)

\* C5 witness: the empty object is true-equivalent
C5_Witness ==
    /\ Done("isTrueEquivalent")
    /\ value = JsObject(<<>>, <<>>)
    /\ result.ok
    /\ result.val

\* the decision has exactly one residual rule, with the value false, whose
\* only expression is a non-negated single reference operand that resolves
\* to the aspect "a" and the path <<"o">>
OwnerIdScenario ==
    /\ decision.hasResidualRules
    /\ decision.residualRules.present
    /\ Len(decision.residualRules.get) = 1
    /\ decision.residualRules.get[1].value = JsFalse
    /\ Len(decision.residualRules.get[1].expressions) = 1
    /\ ~decision.residualRules.get[1].expressions[1].negated
    /\ Len(decision.residualRules.get[1].expressions[1].operands) = 1
    /\ decision.residualRules.get[1].expressions[1].operands[1].isRef
    /\ extractAspectIdAndPath(
           decision.residualRules.get[1].expressions[1].operands[1],
           prefixes).val = AspectIdAndPath(<<"a">>, << <<"o">> >>, FALSE)

\* the negation of the i-th predicate of the group composed with the
\* negation of the group: TRUE when the net meaning is the negated check
NetNegated(g, i) == g.negated # g.queries[i].negated

\* C6 (as claimed): the scenario compiles to a negated group that holds a
\* NOT Exists predicate, so that the net meaning is the plain Exists check.
C6_DoubleNegationCancels ==
    (Done("toAspectQueryGroups") /\ OwnerIdScenario) =>
        /\ result.ok
        /\ Len(result.val) = 1
        /\ result.val[1].negated
        /\ result.val[1].queries = <<AspectQueryExists(<<"a">>, << <<"o">> >>, TRUE)>>
        /\ ~NetNegated(result.val[1], 1)

\* C6 (amended): the scenario compiles to a negated group that holds the
\* Exists predicate not negated, so that the net meaning is the negated
\* Exists check: there is one negation, that of the group.
C6_SingleNegation ==
    (Done("toAspectQueryGroups") /\ OwnerIdScenario) =>
        /\ result.ok
        /\ result.val = <<AspectQueryGroup(
                            <<AspectQueryExists(<<"a">>, << <<"o">> >>, FALSE)>>,
                            TRUE, TRUE)>>
        /\ NetNegated(result.val[1], 1)

\* C6 witness: the scenario, compiled to one negated group
C6_Witness ==
    /\ Done("toAspectQueryGroups")
    /\ OwnerIdScenario
    /\ prefixes = <<PrefixP>>
    /\ result.ok
    /\ result.val[1].negated
    /\ result.val[1].queries[1].kind = "Exists"

\* the expression has exactly one operand, a reference whose value is a
\* string
OneReference(e) ==
    /\ Len(e.operands) = 1
    /\ e.operands[1].isRef
    /\ e.operands[1].value.type = "string"

\* the predicate of a one-operand expression whose reference resolved to r
ExpectedOneOperand(e, r) ==
    IF r.isCollection
    THEN AspectQueryArrayNotEmpty(r.aspectId, r.path, e.negated)
    ELSE AspectQueryExists(r.aspectId, r.path, e.negated)

\* C7: an expression with exactly one operand, a reference, compiles to
\* ArrayNotEmpty(aspectId, path, negated) when the reference resolves to a
\* collection reference and to Exists(aspectId, path, negated) otherwise,
\* with the negated flag of the expression unchanged, whatever the operator.
C7_OneOperand ==
    (Done("toAspectQuery") /\ OneReference(expression)) =>
        /\ result.ok
        /\ result.val =
               ExpectedOneOperand(
                   expression,
                   extractAspectIdAndPath(expression.operands[1], prefixes).val)
        /\ result.val.negated = expression.negated
        /\ result.val.kind \in {"ArrayNotEmpty", "Exists"}

\* C7 witness: a negated collection reference with an operator the
\* compiler does not know, compiled to a negated ArrayNotEmpty
C7_Witness ==
    /\ Done("toAspectQuery")
    /\ OneReference(expression)
    /\ expression.negated
    /\ expression.operator = Some("!=")
    /\ expression.operands[1].value = JsString(RefCollection)
    /\ prefixes = <<PrefixP>>
    /\ result.ok
    /\ result.val = AspectQueryArrayNotEmpty(<<"a">>, <<>>, TRUE)

\* C8: a two-operand expression whose operands are both references, or
\* both literals, fails with UnsupportedExpressionShape, whatever the
\* operator, the negated flag and the values of the operands.
C8_SameKindOperands ==
    (/\ Done("toAspectQuery")
     /\ Len(expression.operands) = 2
     /\ expression.operands[1].isRef = expression.operands[2].isRef) =>
        /\ ~result.ok
        /\ result.err = "UnsupportedExpressionShape"

\* C8 witness: two references, one of them not a string, and no operator
C8_Witness ==
    /\ Done("toAspectQuery")
    /\ Len(expression.operands) = 2
    /\ expression.operands[1] = ConciseOperand(TRUE, JsNumber(1))
    /\ expression.operands[2].isRef
    /\ ~expression.operator.present
    /\ result.err = "UnsupportedExpressionShape"

\* the expression has two operands, one reference whose value is a string
\* and one literal
RefAndLiteral(e) ==
    /\ Len(e.operands) = 2
    /\ e.operands[1].isRef # e.operands[2].isRef
    /\ \A i \in 1..2 : e.operands[i].isRef => e.operands[i].value.type = "string"

RefOf(e) == IF e.operands[1].isRef THEN e.operands[1] ELSE e.operands[2]

LiteralOf(e) == IF e.operands[1].isRef THEN e.operands[2] ELSE e.operands[1]

\* the literal is a string, a boolean or a number
Convertible(operand) == operand.value.type \in {"string", "boolean", "number"}

\* C9: with one literal and one reference that resolves to a collection
\* reference, the operator `=` gives ValueInArray(aspectId, path,
\* literalValue, negated) and every other operator string fails with
\* UnsupportedOperatorForCollection.
C9_CollectionReference ==
    (/\ Done("toAspectQuery")
     /\ RefAndLiteral(expression)
     /\ extractAspectIdAndPath(RefOf(expression), prefixes).val.isCollection
     /\ expression.operator.present) =>
        IF expression.operator.get = "="
        THEN Convertible(LiteralOf(expression)) =>
               /\ result.ok
               /\ result.val =
                      AspectQueryValueInArray(
                          extractAspectIdAndPath(RefOf(expression), prefixes).val.aspectId,
                          extractAspectIdAndPath(RefOf(expression), prefixes).val.path,
                          toAspectQueryValue(LiteralOf(expression)).val,
                          expression.negated)
        ELSE /\ ~result.ok
             /\ result.err = "UnsupportedOperatorForCollection"

\* C9 witness: the literal first, the collection reference second, `=`
C9_Witness ==
    /\ Done("toAspectQuery")
    /\ expression.operator = Some("=")
    /\ expression.operands =
           <<ConciseOperand(FALSE, JsNumber(1)),
             ConciseOperand(TRUE, JsString(RefCollection))>>
    /\ prefixes = <<>>
    /\ result.ok
    /\ result.val = AspectQueryValueInArray(<<"p">>, << <<"a">> >>,
                                            AspectQueryBigDecimalValue(1),
                                            expression.negated)

\* C9 witness of the failure: a collection reference compared with `<`
C9_WitnessFails ==
    /\ Done("toAspectQuery")
    /\ RefAndLiteral(expression)
    /\ expression.operator = Some("<")
    /\ RefOf(expression).value = JsString(RefCollection)
    /\ result.err = "UnsupportedOperatorForCollection"

ComparisonOperators == {"=", ">", "<", ">=", "<="}

\* the expression with its two operands exchanged
Swapped(e) == [e EXCEPT !.operands = <<e.operands[2], e.operands[1]>>]

\* C10: with one literal, one reference that is no collection reference and
\* an operator among =, >, <, >=, <=, the result is WithValue with the
\* resolved aspectId and path, the converted literal, the same operator, the
\* negated flag of the expression and referenceIsFirstOperand = TRUE exactly
\* when operand 0 is the reference; exchanging the operands changes that
\* flag and nothing else.
C10_WithValue ==
    (/\ Done("toAspectQuery")
     /\ RefAndLiteral(expression)
     /\ Convertible(LiteralOf(expression))
     /\ ~extractAspectIdAndPath(RefOf(expression), prefixes).val.isCollection
     /\ expression.operator.present
     /\ expression.operator.get \in ComparisonOperators) =>
        /\ result.ok
        /\ result.val =
               AspectQueryWithValue(
                   extractAspectIdAndPath(RefOf(expression), prefixes).val.aspectId,
                   extractAspectIdAndPath(RefOf(expression), prefixes).val.path,
                   toAspectQueryValue(LiteralOf(expression)).val,
                   expression.operator.get,
                   expression.negated,
                   expression.operands[1].isRef)
        /\ toAspectQuery(Swapped(expression), prefixes).ok
        /\ toAspectQuery(Swapped(expression), prefixes).val =
               [result.val EXCEPT
                   !.placeReferenceFirst = ~result.val.placeReferenceFirst]

\* C10 witness: the literal first, `<`, negated: the reference is not the
\* first operand
C10_Witness ==
    /\ Done("toAspectQuery")
    /\ expression.negated
    /\ expression.operator = Some("<")
    /\ expression.operands =
           <<ConciseOperand(FALSE, JsString(<<"x">>)),
             ConciseOperand(TRUE, JsString(RefField))>>
    /\ prefixes = <<PrefixP, PrefixPDot>>
    /\ result.ok
    /\ result.val = AspectQueryWithValue(<<"a">>, << <<"o">> >>,
                                         AspectQueryStringValue(<<"x">>),
                                         "<", TRUE, FALSE)

\* the string of a reference operand with the prefixes removed and one
\* leading separator dropped, and its non-empty segments
CleanedRef ==
    StripLeadingDot(StripPrefixes(thisOperand.value.s, SortedPrefixes(<<>>, prefixes)))

Segments == Parts(CleanedRef)

StringReference == thisOperand.isRef /\ thisOperand.value.type = "string"

LastSegment == Segments[Len(Segments)]

WithoutMarker(s) == SubSeq(s, 1, Len(s) - Len(CollectionMarker))

\* C11: for a reference with at least 2 segments after prefix stripping,
\* extractAspectIdAndPath returns the first segment as aspectId; when the
\* last segment carries the [_] marker the collection flag is true and the
\* path is every remaining segment in order, the last one without its
\* marker; without the marker the flag is false and the path is every
\* remaining segment in order.
C11_CollectionPath ==
    (Done("extractAspectIdAndPath") /\ StringReference /\ Len(Segments) >= 2)
    => /\ result.ok
       /\ result.val.aspectId = Segments[1]
       /\ IF EndsWith(LastSegment, CollectionMarker)
          THEN /\ result.val.isCollection
               /\ result.val.path =
                      SubSeq(Segments, 2, Len(Segments) - 1)
                      \o <<WithoutMarker(LastSegment)>>
          ELSE /\ ~result.val.isCollection
               /\ result.val.path = SubSeq(Segments, 2, Len(Segments))

\* the half of C11 about references without the marker
C11_PlainPath ==
    (Done("extractAspectIdAndPath") /\ StringReference /\ Len(Segments) >= 2
     /\ ~EndsWith(LastSegment, CollectionMarker))
    => /\ result.ok
       /\ result.val.aspectId = Segments[1]
       /\ ~result.val.isCollection
       /\ result.val.path = SubSeq(Segments, 2, Len(Segments))

\* the prefix at position i of the prefix set is a leading substring of the
\* reference
Leading(i) == StartsWith(thisOperand.value.s, prefixes[i])

\* C12: when two prefixes of different length are both leading substrings
\* of the reference, refStringWithoutPrefixes removes the longer one: the
\* result is what follows the longer prefix (or a tail of it), never the
\* reference with only the shorter prefix removed, whatever the order of
\* the prefixes.
C12_LongerPrefixRemoved ==
    (Done("refStringWithoutPrefixes") /\ StringReference)
    => \A i, j \in 1..Len(prefixes) :
          (Len(prefixes[i]) > Len(prefixes[j]) /\ Leading(i) /\ Leading(j))
          => /\ result.ok
             /\ EndsWith(Substring(thisOperand.value.s, Len(prefixes[i])), result.val)
             /\ result.val # Substring(thisOperand.value.s, Len(prefixes[j]))

\* the prefix set holds no two prefixes of the same length
DistinctLengths ==
    \A i, j \in 1..Len(prefixes) : Len(prefixes[i]) = Len(prefixes[j]) => i = j

\* C12 on the prefix sets whose prefixes all differ in length
C12_DistinctLengths == DistinctLengths => C12_LongerPrefixRemoved

\* C13: a reference that has fewer than 2 segments after prefix stripping,
\* removal of one leading separator and discarding of empty segments gives
\* the whole cleaned string as identifier, an empty path and collection
\* flag false, also when the string ends with the [_] marker.
C13_FewerThanTwoSegments ==
    (Done("extractAspectIdAndPath") /\ StringReference /\ Len(Segments) < 2)
    => /\ result.ok
       /\ result.val = AspectIdAndPath(CleanedRef, <<>>, FALSE)

\* a one-segment reference that ends with the marker and keeps a separator,
\* resolved after a prefix was removed
C13_Witness ==
    /\ Done("extractAspectIdAndPath")
    /\ StringReference
    /\ Len(Segments) = 1
    /\ CleanedRef # thisOperand.value.s
    /\ CleanedRef # Segments[1]
    /\ EndsWith(CleanedRef, CollectionMarker)
    /\ result.ok
    /\ result.val.aspectId = CleanedRef
    /\ ~result.val.isCollection

\* the residual rules of the decision, as residualRules.toList.flatten
ResidualRules ==
    IF decision.residualRules.present THEN decision.residualRules.get ELSE <<>>

DecisionCompiled == Done("toAspectQueryGroups") \/ Done("toSql")

\* what compiling expression j of residual rule i alone gives
CompiledAt(i, j) == toAspectQuery(ResidualRules[i].expressions[j], prefixes)

\* <<i, j>> for every expression j of every residual rule i
ExpressionPositions ==
    UNION {{<<i, j>> : j \in 1..Len(ResidualRules[i].expressions)} :
              i \in 1..Len(ResidualRules)}

InvalidPositions == {p \in ExpressionPositions : ~CompiledAt(p[1], p[2]).ok}

\* C14: when compiling an expression of a residual rule fails, compiling
\* the decision (toAspectQueryGroups and toSql) fails with the error of a
\* failing expression and returns no group list and no SQL at all.
C14_AllOrNothing ==
    (DecisionCompiled /\ decision.hasResidualRules /\ InvalidPositions # {})
    => /\ ~result.ok
       /\ result.val = FALSE
       /\ \E p \in InvalidPositions : result = CompiledAt(p[1], p[2])

\* toSql of a decision whose first rule compiles and whose second does not
C14_Witness ==
    /\ Done("toSql")
    /\ decision.hasResidualRules
    /\ Len(ResidualRules) = 2
    /\ toAspectQueryGroup(ResidualRules[1], prefixes).ok
    /\ ~toAspectQueryGroup(ResidualRules[2], prefixes).ok
    /\ ~result.ok

\* position p comes before position q in compilation order: rules in list
\* order, expressions in list order within a rule
Before(p, q) == p[1] < q[1] \/ (p[1] = q[1] /\ p[2] < q[2])

FirstInvalid ==
    CHOOSE p \in InvalidPositions : \A q \in InvalidPositions \ {p} : Before(p, q)

\* C15: when several expressions of a decision are invalid, the error of
\* the decision compilation is the error of the first invalid expression in
\* compilation order; the result holds that one error only, no error of a
\* later expression.
C15_FirstErrorWins ==
    (DecisionCompiled /\ decision.hasResidualRules /\ InvalidPositions # {})
    => result = CompiledAt(FirstInvalid[1], FirstInvalid[2])

\* two invalid expressions with different errors, in different rules
C15_Witness ==
    /\ DecisionCompiled
    /\ decision.hasResidualRules
    /\ \E p, q \in InvalidPositions :
          /\ p[1] < q[1]
          /\ p = FirstInvalid
          /\ CompiledAt(p[1], p[2]).err # CompiledAt(q[1], q[2]).err
          /\ result.err = CompiledAt(p[1], p[2]).err

\* two invalid expressions with different errors, in one rule
C15_WitnessSameRule ==
    /\ DecisionCompiled
    /\ decision.hasResidualRules
    /\ \E p, q \in InvalidPositions :
          /\ p[1] = q[1]
          /\ p[2] < q[2]
          /\ p = FirstInvalid
          /\ CompiledAt(p[1], p[2]).err # CompiledAt(q[1], q[2]).err
          /\ result.err = CompiledAt(p[1], p[2]).err

\* C16: a decision with hasResidualRules = true that compiles gives one
\* group per residual rule, in rule order, and the queries of group i are
\* the compiled predicates of the expressions of rule i, one per expression
\* and in expression order.
C16_OneGroupPerRule ==
    (Done("toAspectQueryGroups") /\ decision.hasResidualRules /\ result.ok)
    => /\ Len(result.val) = Len(ResidualRules)
       /\ \A i \in 1..Len(ResidualRules) :
             /\ Len(result.val[i].queries) = Len(ResidualRules[i].expressions)
             /\ \A j \in 1..Len(ResidualRules[i].expressions) :
                   /\ CompiledAt(i, j).ok
                   /\ result.val[i].queries[j] = CompiledAt(i, j).val

\* two rules that compile to different groups, the first of two different
\* predicates
C16_Witness ==
    /\ Done("toAspectQueryGroups")
    /\ decision.hasResidualRules
    /\ result.ok
    /\ Len(result.val) = 2
    /\ result.val[1] # result.val[2]
    /\ Len(result.val[1].queries) = 2
    /\ result.val[1].queries[1] # result.val[1].queries[2]

\* C17: toAspectQueryValue on an operand that is no reference gives a
\* string value for a JSON string, a boolean value for a JSON boolean, a
\* numeric value holding the same number for a JSON number, and fails with
\* UnsupportedValueType for every other JSON shape (object, array, null).
C17_ValueMapping ==
    (Done("toAspectQueryValue") /\ ~thisOperand.isRef)
    => CASE thisOperand.value.type = "string" ->
              /\ result.ok
              /\ result.val.type = "string"
              /\ result.val.s = thisOperand.value.s
         [] thisOperand.value.type = "boolean" ->
              /\ result.ok
              /\ result.val.type = "boolean"
              /\ result.val.b = thisOperand.value.b
         [] thisOperand.value.type = "number" ->
              /\ result.ok
              /\ result.val.type = "number"
              /\ result.val.n = thisOperand.value.n
         [] OTHER ->
              /\ thisOperand.value.type \in {"object", "array", "null"}
              /\ ~result.ok
              /\ result.err = "UnsupportedValueType"

\* a negative number literal keeps its number
C17_Witness ==
    /\ Done("toAspectQueryValue")
    /\ ~thisOperand.isRef
    /\ thisOperand.value = JsNumber(-1)
    /\ result = Ok(AspectQueryBigDecimalValue(-1))

\* an object literal has no value
C17_WitnessFails ==
    /\ Done("toAspectQueryValue")
    /\ ~thisOperand.isRef
    /\ thisOperand.value.type = "object"
    /\ result = Err("UnsupportedValueType")

ReferenceAccessorCalled ==
    \/ Done("refString")
    \/ Done("refStringWithoutPrefixes")
    \/ Done("extractAspectIdAndPath")

\* C18: toAspectQueryValue on an operand with isRef = true fails with
\* InvalidOperandUsage whatever its value; refString,
\* refStringWithoutPrefixes and extractAspectIdAndPath on an operand with
\* isRef = false fail whatever its value; so an expression whose only
\* operand is a literal does not compile.
C18_AccessorPreconditions ==
    /\ (Done("toAspectQueryValue") /\ thisOperand.isRef)
       => result = Err("InvalidOperandUsage")
    /\ (ReferenceAccessorCalled /\ ~thisOperand.isRef)
       => result = Err("InvalidOperandUsage")
    /\ (Done("toAspectQuery") /\ Len(expression.operands) = 1
        /\ ~expression.operands[1].isRef)
       => result = Err("InvalidOperandUsage")

\* an expression whose only operand is a string literal
C18_Witness ==
    /\ Done("toAspectQuery")
    /\ Len(expression.operands) = 1
    /\ ~expression.operands[1].isRef
    /\ expression.operands[1].value.type = "string"
    /\ ~result.ok

\* a literal holding a string that would resolve as a reference, and a
\* reference holding a string that would convert as a literal
C18_WitnessAccessors ==
    \/ /\ Done("extractAspectIdAndPath")
       /\ ~thisOperand.isRef
       /\ thisOperand.value.type = "string"
       /\ Len(Segments) >= 2
       /\ ~result.ok
    \/ /\ Done("toAspectQueryValue")
       /\ thisOperand.isRef
       /\ thisOperand.value.type = "string"
       /\ ~result.ok

\* C19: resolving a reference operand (isRef = true) fails exactly when its
\* value is no JSON string, and then with InvalidReference; for every JSON
\* string, the empty one and those made of separators only included, and
\* every prefix set, extractAspectIdAndPath returns a result.
C19_ReferenceResolves ==
    (ReferenceAccessorCalled /\ thisOperand.isRef)
    => IF thisOperand.value.type = "string"
       THEN result.ok
       ELSE result = Err("InvalidReference")

\* a reference of separators only, resolved under a non-empty prefix set
C19_Witness ==
    /\ Done("extractAspectIdAndPath")
    /\ thisOperand.isRef
    /\ thisOperand.value = JsString(<<".", ".">>)
    /\ prefixes # <<>>
    /\ Segments = <<>>
    /\ result.ok

\* a reference whose value is a number
C19_WitnessFails ==
    /\ Done("extractAspectIdAndPath")
    /\ thisOperand.isRef
    /\ thisOperand.value.type = "number"
    /\ result = Err("InvalidReference")

\* C20: for two operands, one literal that is a string, a boolean or a
\* number and one reference that is no collection reference, an operator
\* string outside =, >, <, >=, <= fails with UnsupportedOperator, and each
\* of the five symbols gives a WithValue predicate with that same symbol.
C20_OperatorMapping ==
    (/\ Done("toAspectQuery")
     /\ RefAndLiteral(expression)
     /\ Convertible(LiteralOf(expression))
     /\ ~extractAspectIdAndPath(RefOf(expression), prefixes).val.isCollection
     /\ expression.operator.present) =>
        IF expression.operator.get \in ComparisonOperators
        THEN /\ result.ok
             /\ result.val.kind = "WithValue"
             /\ result.val.operator = expression.operator.get
        ELSE result = Err("UnsupportedOperator")

\* the operator > with the reference first
C20_Witness ==
    /\ Done("toAspectQuery")
    /\ RefAndLiteral(expression)
    /\ expression.operands[1].isRef
    /\ expression.operator = Some(">")
    /\ result.ok
    /\ result.val.operator = ">"

\* an operator that is not supported
C20_WitnessFails ==
    /\ Done("toAspectQuery")
    /\ RefAndLiteral(expression)
    /\ Convertible(LiteralOf(expression))
    /\ expression.operator = Some("!=")
    /\ result = Err("UnsupportedOperator")

\* C21: an expression with more than 2 operands fails with TooManyOperands
\* and gives no predicate, whatever its operands, operator and negated flag.
C21_TooManyOperands ==
    (Done("toAspectQuery") /\ Len(expression.operands) > 2)
    => result = Err("TooManyOperands")

\* three operands whose first two alone would compile
C21_Witness ==
    /\ Done("toAspectQuery")
    /\ Len(expression.operands) = 3
    /\ toAspectQuery([expression EXCEPT !.operands = SubSeq(expression.operands, 1, 2)],
                     prefixes).ok
    /\ result = Err("TooManyOperands")

\* C29: an expression with zero operands fails through the branch of an
\* expression with more than 2 operands, with the same error; a predicate
\* is produced only for 1 or 2 operands.
C29_ZeroOperands ==
    Done("toAspectQuery")
    => /\ Len(expression.operands) = 0 => result = Err("TooManyOperands")
       /\ result.ok => Len(expression.operands) \in {1, 2}

\* no operand, with an operator and either negated flag
C29_Witness ==
    /\ Done("toAspectQuery")
    /\ expression.operands = <<>>
    /\ expression.operator = Some("=")
    /\ expression.negated
    /\ result = Err("TooManyOperands")

\* the two calls ended the same way: the same value, or the same error
SameOutcome(r1, r2) ==
    /\ r1.ok = r2.ok
    /\ IF r1.ok THEN r1.val = r2.val ELSE r1.err = r2.err

\* the set of the prefixes of ps, in every iteration order
Orders(ps) ==
    {qs \in SeqsUpTo({ps[i] : i \in 1..Len(ps)}, Len(ps)) :
        Len(qs) = Len(ps) /\ IsInjective(qs)}

\* C22: compiling the same decision with the same set of prefixes, given
\* in any insertion order, gives the same predicate group list or the same
\* error.
C22_Deterministic ==
    Done("toAspectQueryGroups")
    => \A qs \in Orders(prefixes) :
          SameOutcome(toAspectQueryGroups(decision, qs), result)

\* C22 on the prefix sets whose prefixes all differ in length
C22_DistinctLengths == DistinctLengths => C22_Deterministic

PatchCallDone ==
    \/ Done("processRecordPatchOperationsOnAspects")
    \/ Done("getPatchedRecord")
    \/ Done("applyJsonPathToRecordContextData")

MoveOrCopyInAspects(o) ==
    o.op \in {"move", "copy"} /\ InAspect(o.from) /\ InAspect(o.path)

CrossAspect(o) == MoveOrCopyInAspects(o) /\ AspectName(o.from) # AspectName(o.path)

WithinAspect(o) == MoveOrCopyInAspects(o) /\ AspectName(o.from) = AspectName(o.path)

\* the callbacks a successful call made
CallbacksOf(r) ==
    IF fn = "processRecordPatchOperationsOnAspects" THEN r.val ELSE r.val.callbacks

\* C23: a record patch with a move or a copy whose source and destination
\* lie in two different aspects is rejected with an error by
\* processRecordPatchOperationsOnAspects, getPatchedRecord and
\* applyJsonPathToRecordContextData, whatever else the patch holds; a move
\* or copy within one aspect is accepted, and handed to onPatchAspect of
\* that aspect with both paths relative to the aspect.
C23_CrossAspectRejected ==
    PatchCallDone
    => /\ (\E i \in 1..Len(recordPatch) : CrossAspect(recordPatch[i])) => ~result.ok
       /\ (Len(recordPatch) = 1 /\ WithinAspect(recordPatch[1])) => result.ok
       /\ result.ok =>
             \A i \in 1..Len(recordPatch) :
                WithinAspect(recordPatch[i]) =>
                   \E c \in 1..Len(CallbacksOf(result)) :
                      /\ CallbacksOf(result)[c].callback = "onPatchAspect"
                      /\ CallbacksOf(result)[c].aspectId = AspectName(recordPatch[i].path)
                      /\ \E k \in 1..Len(CallbacksOf(result)[c].ops) :
                            CallbacksOf(result)[c].ops[k] =
                                PatchOp(recordPatch[i].op, Rest(recordPatch[i].from),
                                        Rest(recordPatch[i].path), "none")

\* a patch that replaces the aspect a and moves a field of a to the aspect b
C23_Witness ==
    /\ Done("getPatchedRecord")
    /\ recordPatch = <<Add(PointerA, "object"), Move(PointerAX, PointerBY)>>
    /\ result = Err("CrossNamespaceOperationUnsupported")

\* a patch that copies the aspect a into its field x and tests that field
C23_WitnessWithin ==
    /\ Done("processRecordPatchOperationsOnAspects")
    /\ recordPatch = <<Copy(PointerA, PointerAX), Test(PointerAX)>>
    /\ result = Ok(<<onPatchAspect("a", <<Copy(<<>>, <<"x">>), Test(<<"x">>)>>)>>)

\* the only prefix of the prefix set, written with a trailing separator
WithSeparator == prefixes[1] \o <<".">>

\* the call is made with one prefix and the reference starts with that
\* prefix followed by a separator
OnePrefixThenSeparator ==
    /\ Done("extractAspectIdAndPath")
    /\ StringReference
    /\ Len(prefixes) = 1
    /\ StartsWith(thisOperand.value.s, WithSeparator)

C24_WitnessOneSegment ==
    /\ OnePrefixThenSeparator
    /\ prefixes = <<PrefixP>>
    /\ thisOperand.value.s = <<"p", ".", "a">>
    /\ result = Ok(AspectIdAndPath(<<"a">>, <<>>, FALSE))

\* the lengths of qs never grow from one prefix to the next
DescendingLength(qs) ==
    \A i, j \in 1..Len(qs) : i < j => Len(qs[i]) >= Len(qs[j])

\* C25: refStringWithoutPrefixes applies the prefixes of the set one after
\* another in descending length, each to the output of the previous step:
\* every prefix that leads the current string is removed, a shorter one
\* after a longer one too, and nothing is removed at a non-leading position.
C25_SequentialStripping ==
    (Done("refStringWithoutPrefixes") /\ StringReference)
    => /\ result.ok
       /\ \E qs \in Orders(prefixes) :
             /\ DescendingLength(qs)
             /\ result.val = StripPrefixes(thisOperand.value.s, qs)

\* C25 on the prefix sets whose prefixes all differ in length
C25_DistinctLengths == DistinctLengths => C25_SequentialStripping

\* two prefixes removed from one reference, the shorter one leading only
\* what the longer one left
C25_TwoRemoved ==
    /\ Done("refStringWithoutPrefixes")
    /\ StringReference
    /\ prefixes = <<PrefixA, PrefixPDot>>
    /\ thisOperand.value.s = <<"p", ".", "a", ".", "p">>
    /\ result = Ok(<<".", "p">>)

\* the positions of the prefixes that no earlier prefix of the set equals
\* in length, and the positions of the others
FirstOfLength == {i \in 1..Len(prefixes) :
                    \A j \in 1..(i - 1) : Len(prefixes[j]) # Len(prefixes[i])}

Discarded == (1..Len(prefixes)) \ FirstOfLength

PrefixLengths == {Len(prefixes[i]) : i \in 1..Len(prefixes)}

\* the prefixes tried, in the order they are tried
Tried == SortedPrefixes(<<>>, prefixes)

\* one prefix per distinct length is tried, the first of that length the
\* set iterates, the longer before the shorter
OnePerLength ==
    /\ Len(Tried) = Cardinality(PrefixLengths)
    /\ {Tried[k] : k \in 1..Len(Tried)} = {prefixes[i] : i \in FirstOfLength}
    /\ \A k, l \in 1..Len(Tried) : k < l => Len(Tried[k]) > Len(Tried[l])

\* C26 as stated: of the prefixes of one length at most one is applied,
\* the number of prefixes tried is the number of distinct lengths, and a
\* reference that starts with a discarded prefix keeps that prefix.
C26_DiscardedPrefixKept ==
    (Done("refStringWithoutPrefixes") /\ StringReference)
    => /\ OnePerLength
       /\ \A i \in Discarded :
             Leading(i) => /\ result.ok
                           /\ StartsWith(result.val, prefixes[i])

\* C26: of the prefixes of one length only the first one the set iterates
\* is tried, so the number of prefixes tried is the number of distinct
\* lengths; a discarded prefix is never applied, and a reference that
\* starts with a discarded prefix is returned unchanged unless a prefix
\* that was kept leads it as well.
C26_OnePrefixPerLength ==
    (Done("refStringWithoutPrefixes") /\ StringReference)
    => /\ OnePerLength
       /\ result.ok
       /\ \E qs \in Orders([k \in 1..Len(Tried) |-> Tried[k]]) :
             /\ DescendingLength(qs)
             /\ result.val = StripPrefixes(thisOperand.value.s, qs)
       /\ \A i \in Discarded :
             (Leading(i) /\ \A j \in FirstOfLength : ~Leading(j))
             => result.val = thisOperand.value.s

\* the reference p.a with the prefixes a. and p.: p. is discarded and stays
C26_Witness ==
    /\ Done("refStringWithoutPrefixes")
    /\ StringReference
    /\ prefixes = <<PrefixADot, PrefixPDot>>
    /\ Discarded = {2}
    /\ thisOperand.value.s = <<"p", ".", "a">>
    /\ result = Ok(<<"p", ".", "a">>)

\* the reference p.a with the prefixes a., p. and p: p. is discarded, yet
\* the kept prefix p takes its first character
C26_WitnessPartlyRemoved ==
    /\ Done("refStringWithoutPrefixes")
    /\ StringReference
    /\ prefixes = <<PrefixADot, PrefixPDot, PrefixP>>
    /\ thisOperand.value.s = <<"p", ".", "a">>
    /\ result = Ok(<<".", "a">>)

\* rs with the default, name and fullName of every rule set anew
Renamed(rs, default, name, fullName) ==
    [i \in 1..Len(rs) |->
        [rs[i] EXCEPT !.default = default, !.name = name, !.fullName = fullName]]

\* d with every field the branch of hasResidualRules = true does not read
\* set to one value, and the default, name and fullName of its rules too
OnlyRulesRead(d) ==
    [d EXCEPT !.result = NoneOf(JsNull), !.hasWarns = FALSE,
              !.warns = NoneOf(<<>>), !.unknowns = NoneOf(<<>>),
              !.residualRules.get = Renamed(@, FALSE, "deny", "data.x.allow")]

\* d with every field the branch of hasResidualRules = false does not read
\* set to one value
OnlyResultRead(d) ==
    [d EXCEPT !.residualRules = NoRules, !.hasWarns = FALSE,
              !.warns = NoneOf(<<>>), !.unknowns = NoneOf(<<>>)]

\* C27: the compiled group list depends only on the fields the active
\* branch reads.  With hasResidualRules = true the decision compiles as the
\* one does whose result, hasWarns, warns and unknowns and whose rules'
\* default, name and fullName are replaced by fixed values; with
\* hasResidualRules = false it compiles as the one does whose
\* residualRules, hasWarns, warns and unknowns are replaced by fixed
\* values.  Decisions that agree on the fields read so compile alike.
C27_OnlyReadFields ==
    Done("toAspectQueryGroups")
    => SameOutcome(toAspectQueryGroups(IF decision.hasResidualRules
                                       THEN OnlyRulesRead(decision)
                                       ELSE OnlyResultRead(decision), prefixes),
                   result)

\* residual rules that compile to a negated group, with the result true
C27_Witness ==
    /\ Done("toAspectQueryGroups")
    /\ decision.hasResidualRules
    /\ decision.result = Some(JsTrue)
    /\ Len(ResidualRules) = 1
    /\ result.ok
    /\ result.val[1].negated
    /\ result.val[1].queries[1].kind = "Exists"

\* a decision without residual rules to compile that carries failing rules
C27_WitnessUnconditional ==
    /\ Done("toAspectQueryGroups")
    /\ ~decision.hasResidualRules
    /\ decision.result = Some(JsFalse)
    /\ InvalidPositions # {}
    /\ result = Ok(<<DefaultAspectQueryGroup(<<AspectQueryFalse>>)>>)

\* C28: an expression of one reference and one literal whose operator is
\* absent does not compile, whether the reference is a collection
\* reference or not; no operator is taken in its place.  When the literal
\* is a string, a boolean or a number the failure is the read of the absent
\* operator.
C28_AbsentOperator ==
    (/\ Done("toAspectQuery")
     /\ RefAndLiteral(expression)
     /\ ~expression.operator.present)
    => /\ ~result.ok
       /\ (\/ Convertible(LiteralOf(expression))
           \/ extractAspectIdAndPath(RefOf(expression), prefixes).val.isCollection)
          => result = Err("NoSuchElement")

\* no operator, a reference that is no collection reference, a number
C28_Witness ==
    /\ Done("toAspectQuery")
    /\ RefAndLiteral(expression)
    /\ ~expression.operator.present
    /\ RefOf(expression).value = JsString(RefField)
    /\ LiteralOf(expression).value = JsNumber(1)
    /\ result = Err("NoSuchElement")

\* no operator, a collection reference
C28_WitnessCollection ==
    /\ Done("toAspectQuery")
    /\ RefAndLiteral(expression)
    /\ ~expression.operator.present
    /\ RefOf(expression).value = JsString(RefCollection)
    /\ prefixes = <<PrefixP>>
    /\ result = Err("NoSuchElement")

\* C30: a decision with hasResidualRules = true whose residualRules is
\* absent compiles without error to the empty group list, as the decision
\* with the empty list of rules does, whatever its result is.
C30_AbsentRulesAreEmpty ==
    (/\ Done("toAspectQueryGroups")
     /\ decision.hasResidualRules
     /\ ~decision.residualRules.present)
    => /\ result = Ok(<<>>)
       /\ toAspectQueryGroups([decision EXCEPT !.residualRules = Some(<<>>)], prefixes)
              = Ok(<<>>)

\* residualRules absent and a result that is true
C30_Witness ==
    /\ Done("toAspectQueryGroups")
    /\ decision.hasResidualRules
    /\ decision.residualRules = NoRules
    /\ decision.result = Some(JsTrue)
    /\ result = Ok(<<>>)

=============================================================================
